---- MODULE Spec2Model ----
(***************************************************************************)
(* Benchmark-session lifecycle of WebAgent: the create-session handler     *)
(* (POST /api/benchmark), the record update (POST /api/benchmark/update),  *)
(* the session update (POST /api/benchmark/session/update), the two        *)
(* tables benchmark_sessions and benchmarks, and the row trigger           *)
(* update_benchmark_session_stats that recomputes a session from its       *)
(* records.                                                                *)
(*                                                                         *)
(* Every statement on the benchmarks table is its own READ COMMITTED       *)
(* transaction: the row write and the snapshot of the trigger's UPDATE     *)
(* statement are taken first (the sub-SELECTs of the trigger read that     *)
(* snapshot: committed rows plus the transaction's own row), the write of  *)
(* the session row and the commit come second.  Other transactions run in  *)
(* between.                                                                *)
(***************************************************************************)
EXTENDS Integers, FiniteSets, Sequences, TLC

\* ---------------------------------------------------------------- bounds
NumModels == 2          \* configured models (8 in route.ts)
MaxSessions == 1        \* sessions whose lifecycle is followed
MaxUpdates == 3         \* record updates
MaxSessionUpdates == 1  \* session updates
MaxOperations == 3      \* record updates and session updates together
MaxUrlLen == 6          \* tokens of a URL string
MaxTaskLen == 6         \* characters of a task description
MaxChunks == 3          \* chunks the Execution Backend streams
MaxTimedUpdates == 2    \* record updates while a read is followed
MaxTime == 2            \* execution time of a run
MaxRepeats == 1         \* record updates sent a second time
MaxRequests == 2        \* create-session requests that draw one identifier

\* ------------------------------------------------------------- constants
MODELS_TO_RUN == 1..NumModels
\* completed_models_valid: supabase-schema.sql bounds completed_models by
\* total_models, migration 002 by the literal 8, the length of MODELS_TO_RUN;
\* every session the handler creates has total_models = that length
CompletedModelsLimit == Cardinality(MODELS_TO_RUN)

\* the requests the lifecycle is followed for, and all create-session
\* requests: benchmark_sessions holds at most one row for each
Requests == 1..MaxSessions
AllRequests == 1..MaxRequests
SessionIdentifiers == 1..MaxSessions
BenchmarkKeys == AllRequests \X MODELS_TO_RUN

BenchmarkStatus == {"pending", "running", "completed", "failed", "cancelled"}
SessionStatus == {"running", "completed", "failed", "cancelled"}

NoRow == [exists |-> FALSE]
NoTxn == [kind |-> "none"]
Undefined == [defined |-> FALSE]
Some(v) == [defined |-> TRUE, value |-> v]
Optional(S) == {Undefined} \cup {Some(v) : v \in S}

\* gen_random_uuid(): the two tables draw their ids independently
SessionUuid(r) == <<"session", r>>
BenchmarkUuid(k) == <<"benchmark", k[1], k[2]>>
AllUuids ==
  {SessionUuid(r) : r \in Requests} \cup
  {BenchmarkUuid(k) : k \in Requests \X MODELS_TO_RUN}

VARIABLES
  sessions,         \* benchmark_sessions, committed rows, by request
  benchmarks,       \* benchmarks, committed rows, by (request, model)
  txns,             \* transactions on benchmarks rows that have not committed
  req,              \* the create-session handlers
  nUpdates,         \* record updates begun
  nSessionUpdates,  \* session updates made
  reader,           \* a get-session or list-sessions request
  relay,            \* a GET /api/benchmark/stream/[sessionId] request
  urlCheck,         \* a URL taken through normalizeUrl and validateUrl
  batch,            \* record updates sent one after another
  sessionUpdate     \* a session update between its read and its write

vars == <<sessions, benchmarks, txns, req, nUpdates, nSessionUpdates,
          reader, relay, urlCheck, batch, sessionUpdate>>

otherVars == <<reader, relay, urlCheck, batch, sessionUpdate>>
dbVars == <<sessions, benchmarks, txns, req, nUpdates, nSessionUpdates, batch,
            sessionUpdate>>

\* ---------------------------------------------------- schema and trigger


\* completed_models and successful_models are INTEGER columns without NOT
\* NULL: Null is the NULL one of them holds, and a comparison with NULL is
\* neither true nor false
Null == -1
IsTrue(a, b, holds) == a # Null /\ b # Null /\ holds
IsFalse(a, b, holds) == a # Null /\ b # Null /\ ~holds

\* CHECK constraints of benchmark_sessions: a row is refused when the
\* expression of a CHECK is false, which an AND is when one side is
SessionChecksOk(row) ==
  /\ row.status \in SessionStatus
  /\ ~IsFalse(row.completed_models, 0, row.completed_models >= 0)
  /\ ~IsFalse(row.completed_models, CompletedModelsLimit,
              row.completed_models <= CompletedModelsLimit)
  /\ ~IsFalse(row.successful_models, 0, row.successful_models >= 0)
  /\ ~IsFalse(row.successful_models, row.completed_models,
              row.successful_models <= row.completed_models)

\* SELECT COUNT(*) ... AND status IN ('completed', 'failed')
ResolvedCount(view, r) ==
  Cardinality({m \in MODELS_TO_RUN :
     /\ view[<<r, m>>] # NoRow
     /\ view[<<r, m>>].status \in {"completed", "failed"}})

\* SELECT COUNT(*) ... AND status = 'completed' AND success = true
SuccessfulCount(view, r) ==
  Cardinality({m \in MODELS_TO_RUN :
     /\ view[<<r, m>>] # NoRow
     /\ view[<<r, m>>].status = "completed"
     /\ view[<<r, m>>].success})

\* timezone('utc', now()) / new Date().toISOString() written over a
\* timestamp column: 0 is NULL, 1 a first timestamp, 2 a later one that
\* replaced it
Stamp(old) == IF old = 0 THEN 1 ELSE 2

\* the status CASE of the trigger; old is the status the row has
StatsStatus_OffByOne(old, cnt, total) == IF cnt + 1 >= total THEN "completed" ELSE "running"
StatsStatus(old, cnt, total) == IF cnt = total THEN "completed" ELSE "running"

\* the UPDATE of the trigger: cnt, succ and total come from the snapshot of
\* the statement, old is the current version of the session row
update_benchmark_session_stats(old, cnt, succ, total) ==
  [old EXCEPT
     !.completed_models = cnt,
     !.successful_models = succ,
     !.status = StatsStatus(@, cnt, total),
     !.end_time = IF cnt = total THEN Stamp(@) ELSE @]

\* ------------------------------------------------------ DatabaseService

\* .eq('id', benchmarkId): the committed rows the UPDATE finds
MatchingBenchmarks_BySession(id) ==
  {k \in BenchmarkKeys :
     benchmarks[k] # NoRow /\ (BenchmarkUuid(k) = id \/ benchmarks[k].session_id = id)}
MatchingBenchmarks(id) ==
  {k \in BenchmarkKeys : benchmarks[k] # NoRow /\ BenchmarkUuid(k) = id}

\* updateData of updateBenchmarkStatus applied to a row; an undefined
\* field is not sent
UpdatedBenchmark(row, status, success, execution_time_ms) ==
  [row EXCEPT
     !.status = status,
     !.success = IF success.defined THEN success.value ELSE @,
     !.execution_time_ms =
        IF execution_time_ms.defined THEN execution_time_ms.value ELSE @]

\* a rule that adds the written record to the counts the session has
OpenTxn_Incremental(kind, k, row) ==
  LET old == sessions[k[1]]
      resolved == IF row.status \in {"completed", "failed"} THEN 1 ELSE 0
      successful == IF row.status = "completed" /\ row.success THEN 1 ELSE 0
  IN [kind  |-> kind,
      row   |-> row,
      cnt   |-> old.completed_models + resolved,
      succ  |-> old.successful_models + successful,
      total |-> old.total_models]

\* a rule whose successful count starts again at a record without success
OpenTxn_ResetsOnFailure(kind, k, row) ==
  LET old == sessions[k[1]]
      view == [benchmarks EXCEPT ![k] = row]
  IN [kind  |-> kind,
      row   |-> row,
      cnt   |-> ResolvedCount(view, k[1]),
      succ  |-> IF row.status = "completed" /\ row.success
                  THEN old.successful_models + 1 ELSE 0,
      total |-> old.total_models]

\* the transaction a row statement opens: the new row version and what the
\* trigger's statement snapshot counts
OpenTxn(kind, k, row) ==
  LET view == [benchmarks EXCEPT ![k] = row]
  IN [kind  |-> kind,
      row   |-> row,
      cnt   |-> ResolvedCount(view, k[1]),
      succ  |-> SuccessfulCount(view, k[1]),
      total |-> sessions[k[1]].total_models]

\* updateBenchmarkStatus(id, status, updates): one transaction per row found
updateBenchmarkStatus(id, status, success, execution_time_ms) ==
  [k \in BenchmarkKeys |->
     IF k \in MatchingBenchmarks(id)
       THEN OpenTxn("update", k,
                    UpdatedBenchmark(benchmarks[k], status, success, execution_time_ms))
       ELSE txns[k]]

\* row locks: a second writer of a row waits for the first to commit
RowsFree(id) == \A k \in MatchingBenchmarks(id) : txns[k] = NoTxn

\* updateData of updateSessionStatus applied to a session row
UpdatedSession(row, status, completed, successful) ==
  [row EXCEPT
     !.status = status,
     !.completed_models = IF completed.defined THEN completed.value ELSE @,
     !.successful_models = IF successful.defined THEN successful.value ELSE @,
     !.end_time = IF status \in {"completed", "failed"} THEN Stamp(@) ELSE @]

\* getBenchmarksBySessionIdentifier
BenchmarksBySessionIdentifier(ident) ==
  {k \in BenchmarkKeys :
     benchmarks[k] # NoRow /\ benchmarks[k].session_identifier = ident}

\* ------------------------------------------------- src/lib/utils.ts (URLs)

\* a URL string is a sequence of tokens; "http" and "HTTP" are four letters,
\* the other tokens are one character each ("a" any letter of a host or path)
UrlTokens == {"http", "HTTP", "s", ":", "/", "a", ".", " "}
UrlStrings == UNION {[1..n -> UrlTokens] : n \in 0..MaxUrlLen}

HttpPrefix == <<"http", ":", "/", "/">>
HttpsPrefix == <<"http", "s", ":", "/", "/">>

\* String.prototype.startsWith
StartsWith(s, p) == Len(s) >= Len(p) /\ SubSeq(s, 1, Len(p)) = p

\* the number of characters of a string
RECURSIVE CharLength(_)
CharLength(s) ==
  IF s = <<>> THEN 0
  ELSE (IF Head(s) \in {"http", "HTTP"} THEN 4 ELSE 1) + CharLength(Tail(s))

\* normalizeUrl
normalizeUrl(url) ==
  IF ~StartsWith(url, HttpPrefix) /\ ~StartsWith(url, HttpsPrefix)
    THEN HttpsPrefix \o url
    ELSE url

\* new URL(url), as far as validateUrl depends on it. The parser strips
\* leading and trailing spaces, reads the scheme up to the first ":", and for
\* http and https skips the slashes and requires a host
RECURSIVE TrimLeft(_)
TrimLeft(s) == IF s # <<>> /\ Head(s) = " " THEN TrimLeft(Tail(s)) ELSE s
RECURSIVE TrimRight(_)
TrimRight(s) ==
  IF s # <<>> /\ s[Len(s)] = " " THEN TrimRight(SubSeq(s, 1, Len(s) - 1)) ELSE s
Trim(s) == TrimRight(TrimLeft(s))

\* the length of the longest prefix of s made of tokens of T
RECURSIVE PrefixLen(_, _)
PrefixLen(s, T) ==
  IF s # <<>> /\ Head(s) \in T THEN 1 + PrefixLen(Tail(s), T) ELSE 0
DropN(s, n) == SubSeq(s, n + 1, Len(s))

AlphaTokens == {"http", "HTTP", "s", "a"}
SchemeTokens == AlphaTokens \cup {"."}
HasScheme(s) ==
  /\ s # <<>>
  /\ s[1] \in AlphaTokens
  /\ PrefixLen(s, SchemeTokens) < Len(s)
  /\ s[PrefixLen(s, SchemeTokens) + 1] = ":"
\* the scheme is read in lower case
Lower(s) == [i \in 1..Len(s) |-> IF s[i] = "HTTP" THEN "http" ELSE s[i]]
Scheme(s) == Lower(SubSeq(s, 1, PrefixLen(s, SchemeTokens)))
AfterScheme(s) == DropN(s, PrefixLen(s, SchemeTokens) + 1)
\* the authority of a special URL: after the slashes, up to the next slash
Authority(s) ==
  LET rest == DropN(AfterScheme(s), PrefixLen(AfterScheme(s), {"/"}))
  IN  SubSeq(rest, 1, PrefixLen(rest, UrlTokens \ {"/"}))
Host(s) == SubSeq(Authority(s), 1, PrefixLen(Authority(s), UrlTokens \ {"/", ":"}))
Port(s) == DropN(Authority(s), Len(Host(s)) + 1)
HostOk(s) ==
  /\ Host(s) # <<>>
  /\ \A i \in 1..Len(Host(s)) : Host(s)[i] # " "
  /\ Port(s) = <<>>

\* a URL of another scheme has a host only after "//"; the host may be empty
\* unless a ":" follows it
OpaqueHostOk(s) ==
  StartsWith(AfterScheme(s), <<"/", "/">>) =>
    LET rest == DropN(AfterScheme(s), 2)
        authority == SubSeq(rest, 1, PrefixLen(rest, UrlTokens \ {"/"}))
        host == SubSeq(authority, 1, PrefixLen(authority, UrlTokens \ {"/", ":"}))
    IN  /\ \A i \in 1..Len(host) : host[i] # " "
        /\ authority # <<>> => host # <<>>
        /\ DropN(authority, Len(host) + 1) = <<>>

NoUrl == [ok |-> FALSE]
ParseUrl(url) ==
  LET s == Trim(url)
  IN  IF ~HasScheme(s) THEN NoUrl
      ELSE IF Scheme(s) \in {<<"http">>, <<"http", "s">>}
        THEN IF HostOk(s) THEN [ok |-> TRUE, protocol |-> Scheme(s) \o <<":">>]
                          ELSE NoUrl
        ELSE IF OpaqueHostOk(s) THEN [ok |-> TRUE, protocol |-> Scheme(s) \o <<":">>]
                                ELSE NoUrl

\* validateUrl: the catch returns false
validateUrl_PrefixOnly(url) ==
  StartsWith(url, HttpPrefix) \/ StartsWith(url, HttpsPrefix)
validateUrl(url) ==
  LET parsedUrl == ParseUrl(url)
  IN  parsedUrl.ok /\ parsedUrl.protocol \in {<<"http", ":">>, <<"http", "s", ":">>}

\* ------------------------------------------------- POST /api/benchmark

\* the body of a create-session request: the task description is modelled
\* by its number of characters, userId 0 is a missing one
AuthUsers == {1, 2}
BodyUrls ==
  {<<>>, <<"a">>, <<"a", ".", "a">>, <<"a", " ", "a">>,
   <<"http", ":", "/", "/", "a", ".", "a">>, <<"HTTP", ":", "/", "/", "a">>}
RequestBodies ==
  [websiteUrl : BodyUrls, taskDescription : 0..MaxTaskLen,
   userId : {0} \cup AuthUsers \cup {3}]
NoBody == [websiteUrl |-> <<>>, taskDescription |-> 0, userId |-> 0]
\* the request the session lifecycle is followed with
LifecycleBodies ==
  {[websiteUrl |-> <<"a", ".", "a">>, taskDescription |-> 5, userId |-> 1]}

\* !websiteUrl || !taskDescription || !userId
MissingFields(body) ==
  body.websiteUrl = <<>> \/ body.taskDescription = 0 \/ body.userId = 0
BadRequest(error) == [status |-> 400, error |-> error, details |-> <<>>]

\* what the INSERT into benchmark_sessions requires of the new row beside
\* the uniqueness of session_id: user_id references auth.users, and
\* CONSTRAINT website_url_length, CONSTRAINT task_description_length
SessionInsertOk_NoTaskLength(row) ==
  /\ row.user_id \in AuthUsers
  /\ CharLength(row.website_url) >= 10
SessionInsertOk(row) ==
  /\ row.user_id \in AuthUsers
  /\ CharLength(row.website_url) >= 10
  /\ row.task_description >= 5



\* a text (a message, the text of a body) is the sequence of its pieces; the
\* piece "fetch" is that word and no other piece, and no two adjacent pieces,
\* contain it
NoBackend == [kind |-> "none"]
BackendThrows == [kind |-> "network", message |-> <<"fetch", " failed">>]

\* the characters of a piece of text
PieceLength(piece) ==
  CASE piece = "fetch" -> 5
    [] piece = "could not " -> 10
    [] piece = " the page" -> 9
    [] OTHER -> 1
RECURSIVE TextLength(_)
TextLength(text) ==
  IF text = <<>> THEN 0 ELSE PieceLength(Head(text)) + TextLength(Tail(text))

\* the first n characters of a text: its pieces that lie within them, and the
\* piece "(cut)" for the beginning of a piece that does not
RECURSIVE Substring(_, _)
Substring(text, n) ==
  IF text = <<>> \/ n <= 0 THEN <<>>
  ELSE IF PieceLength(Head(text)) <= n
    THEN <<Head(text)>> \o Substring(Tail(text), n - PieceLength(Head(text)))
    ELSE <<"(cut)">>

\* JSON.parse of the text of a body, as pythonResponse.json() runs it: the
\* text is a value ("{" "}" is the empty object), or the parser stops at a
\* position with an error. The parser skips blanks before a token. A text
\* that begins with a letter stops at the first character that no literal
\* continues with: the "e" of "fetch" (after the "f" of false), the "h" of
\* " the page" (after the blank and the "t" of true), else the first
\* character. After "{" the parser wants a property name or "}", and says
\* so at whatever follows, the end of the text included
LeadingBlanks(text) ==
  IF text # <<>> /\ Head(text) = " the page" THEN 1 ELSE 0
UnexpectedTokenAt(text) ==
  CASE Head(text) = "fetch" -> 1
    [] Head(text) = " the page" -> LeadingBlanks(text) + 1
    [] OTHER -> 0
JsonParse(text) ==
  IF text = <<>> THEN [error |-> "end", pos |-> 0]
  ELSE IF Head(text) = "{"
    THEN IF Len(text) >= 2 /\ text[2] = "}"
           THEN IF Len(text) = 2 THEN [error |-> "none", pos |-> 2]
                ELSE [error |-> "after",
                      pos |-> 2 + LeadingBlanks(Tail(Tail(text)))]
           ELSE [error |-> "property",
                 pos |-> 1 + LeadingBlanks(Tail(text))]
    ELSE [error |-> "token", pos |-> UnexpectedTokenAt(text)]
IsJson(text) == JsonParse(text).error = "none"

\* the message of the SyntaxError json() rejects with. Only the message for
\* an unexpected token quotes the text: all of it when the text is shorter
\* than kMinOriginalSourceLengthForContext, else kMaxContextCharacters on
\* each side of the position (its beginning here, the position being within
\* the first kMaxContextCharacters)
kMaxContextCharacters == 10
kMinOriginalSourceLengthForContext == 21
SyntaxErrorMessage(text) ==
  LET e == JsonParse(text) IN
  CASE e.error = "end" -> <<"Unexpected end of JSON input">>
    [] e.error = "property" -> <<"Expected property name or '}' in JSON">>
    [] e.error = "after" -> <<"Unexpected non-whitespace character after JSON">>
    [] e.error = "token" ->
         IF TextLength(text) < kMinOriginalSourceLengthForContext
           THEN <<"Unexpected token, \"">> \o text \o <<"\" is not valid JSON">>
           ELSE <<"Unexpected token, \"">>
                  \o Substring(text, e.pos + kMaxContextCharacters)
                  \o <<"\"... is not valid JSON">>

\* what the fetch of the Execution Backend start endpoint can do: resolve
\* with an ok response, resolve with a non-ok response, or reject with a
\* network error. The body of an ok response is its text
OkBodies ==
  {<<"{", "}">>, <<>>, <<"fetch">>, <<"{", "fetch">>,
   <<"could not ", "fetch", " the page">>}
BackendOks == {[kind |-> "ok", body |-> b] : b \in OkBodies}

\* the body of a non-ok response is what pythonResponse.json().catch(() =>
\* ({})) makes of it: the value null, or an object with the message under
\* detail and the message of its own, each empty when the object has none (a
\* text that is not JSON resolves to the object without either)
JsonNull == [json |-> "null"]
JsonObject(detail, message) ==
  [json |-> "object", detail |-> detail, message |-> message]
HttpErrorStatuses == {503}
HttpErrorBodies ==
  {JsonNull,
   JsonObject(<<>>, <<>>),
   JsonObject(<<"Service Unavailable">>, <<"could not ", "fetch", " the page">>),
   JsonObject(<<>>, <<"could not ", "fetch", " the page">>)}
BackendHttpErrors ==
  {[kind |-> "http", status |-> c, body |-> b] :
     c \in HttpErrorStatuses, b \in HttpErrorBodies}

\* the message of what line 98 throws: reading errorData.detail of null is a
\* TypeError, else
\* errorData.detail?.message || errorData.message || 'Python API call failed'
ThrownMessage(errorData) ==
  IF errorData.json = "null"
    THEN <<"Cannot read properties of null (reading 'detail')">>
  ELSE IF errorData.detail # <<>> THEN errorData.detail
  ELSE IF errorData.message # <<>> THEN errorData.message
  ELSE <<"Python API call failed">>

\* error.message.includes('fetch')
IncludesFetch(message) == \E i \in 1..Len(message) : message[i] = "fetch"

NoResponse == [status |-> 0, error |-> "none", details |-> <<>>]
SuccessResponse ==
  [status |-> 200, error |-> "none", details |-> <<"Benchmark started for all models">>]

\* the catch block: isError is `error instanceof Error`
CatchResponse(isError, message) ==
  IF isError /\ IncludesFetch(message)
    THEN [status |-> 503, error |-> "Python BrowserUse API not available",
          details |-> <<"Please make sure the Python backend is running on port 8000">>]
    ELSE [status |-> 500, error |-> "Internal server error",
          details |-> IF isError THEN message ELSE <<"Unknown error">>]

\* the row createBenchmarkSession inserts
NewSession(ident, body) ==
  [exists |-> TRUE, session_id |-> ident, user_id |-> body.userId,
   website_url |-> normalizeUrl(body.websiteUrl),
   task_description |-> body.taskDescription, status |-> "running",
   total_models |-> Cardinality(MODELS_TO_RUN),
   completed_models |-> 0, successful_models |-> 0, end_time |-> 0]

\* the row createBenchmark inserts for a model
NewBenchmark_Running(r, ident, m) ==
  [exists |-> TRUE, session_id |-> SessionUuid(r), session_identifier |-> ident,
   model_id |-> m, status |-> "running", success |-> FALSE,
   execution_time_ms |-> 0]
NewBenchmark(r, ident, m) ==
  [exists |-> TRUE, session_id |-> SessionUuid(r), session_identifier |-> ident,
   model_id |-> m, status |-> "pending", success |-> FALSE,
   execution_time_ms |-> 0]

\* ------------------------------- get-session and list-sessions (data)

ExecutionTimes == 1..MaxTime

\* the identifiers a get-session request may carry: those of the rows and
\* one that no row has
UnknownUuid == <<"session", 0>>
RequestUuids == AllUuids \cup {UnknownUuid}

\* .from('benchmark_sessions').select('*').eq('id', sessionId).single():
\* the requests whose session row has this id
SessionsById_AnySession(id) ==
  {r \in AllRequests : sessions[r] # NoRow}
SessionsById(id) ==
  {r \in AllRequests : sessions[r] # NoRow /\ SessionUuid(r) = id}
\* .from('benchmark_sessions').select('*').eq('user_id', userId)
SessionsByUser(userId) ==
  {r \in AllRequests : sessions[r] # NoRow /\ sessions[r].user_id = userId}
\* .from('benchmarks').select('*').eq('session_id', sessionId): the models
\* with a committed record of the session
RecordsOf(r) == {m \in MODELS_TO_RUN : benchmarks[<<r, m>>] # NoRow}

\* benchmarks.map(benchmark => ({...}))
ModelResults(r) ==
  [m \in RecordsOf(r) |->
     [status |-> benchmarks[<<r, m>>].status,
      success |-> benchmarks[<<r, m>>].success,
      execution_time_ms |-> benchmarks[<<r, m>>].execution_time_ms]]

\* modelResults.reduce((sum, result) => sum + result.execution_time_ms, 0)
RECURSIVE TotalExecutionTime_Max(_)
TotalExecutionTime_Max(modelResults) ==
  IF DOMAIN modelResults = {} THEN 0
  ELSE LET m == CHOOSE x \in DOMAIN modelResults : TRUE
           rest == TotalExecutionTime_Max([x \in DOMAIN modelResults \ {m} |-> modelResults[x]])
       IN  IF modelResults[m].execution_time_ms > rest
             THEN modelResults[m].execution_time_ms ELSE rest
RECURSIVE TotalExecutionTime(_)
TotalExecutionTime(modelResults) ==
  IF DOMAIN modelResults = {} THEN 0
  ELSE LET m == CHOOSE x \in DOMAIN modelResults : TRUE
       IN  modelResults[m].execution_time_ms +
           TotalExecutionTime([x \in DOMAIN modelResults \ {m} |-> modelResults[x]])

\* the SessionSummary built from a session row read earlier and the records
\* read now
SessionSummary(r, session) ==
  [id |-> SessionUuid(r), session_id |-> session.session_id,
   user_id |-> session.user_id, status |-> session.status,
   total_models |-> session.total_models,
   completed_models |-> session.completed_models,
   successful_models |-> session.successful_models,
   execution_time_ms |-> TotalExecutionTime(ModelResults(r)),
   model_results |-> ModelResults(r)]

\* the answers of GET /api/benchmark/[sessionId] and GET /api/benchmark
NotFoundResponse == [status |-> 404, error |-> "Session not found", data |-> << >>]
MissingUserResponse == [status |-> 400, error |-> "Missing userId parameter", data |-> << >>]
DataResponse(data) == [status |-> 200, error |-> "none", data |-> data]

IdleReader ==
  [pc |-> "idle", op |-> "none", caller |-> 0, arg |-> 0, rows |-> << >>,
   response |-> [status |-> 0, error |-> "none", data |-> << >>]]

\* the model follows the system until the read it observes has returned
Observing == reader.pc # "done"

\* --------------------------- GET /api/benchmark/stream/[sessionId] (data)

\* what the fetch of the upstream event stream gives
NoUpstream == [kind |-> "none"]
UpstreamThrows == [kind |-> "throws"]
UpstreamStatuses == {200, 204, 302, 304, 404, 503, 600}
UpstreamResponses ==
  {[kind |-> "http", status |-> st, body |-> st = 200] : st \in UpstreamStatuses}

\* response.ok
ResponseOk_Below400(status) == status \in 200..399
ResponseOk(status) == status \in 200..299

\* the Response constructor throws on a status outside 200..599, and on a
\* null body status when a body is given
ResponseInitThrows(status) ==
  \/ status \notin 200..599
  \/ status \in {101, 103, 204, 205, 304}

NoRelayResponse == [kind |-> "none", status |-> 0]
\* the outer catch block
RelayCatchResponse == [kind |-> "json", status |-> 500]
\* NextResponse.json({error: ...}, {status: response.status})
RelayErrorResponse(status) ==
  IF ResponseInitThrows(status) THEN RelayCatchResponse
  ELSE [kind |-> "json", status |-> status]
\* new NextResponse(stream, {headers: text/event-stream ...})
RelayStreamResponse == [kind |-> "stream", status |-> 200]

\* controller.desiredSize is null for an errored stream only; it is 0 for a
\* stream that was closed or cancelled
DesiredSizeIsNull(stream) == stream = "errored"
\* controller.enqueue and controller.close throw unless the stream is readable
CanCloseOrEnqueue(stream) == stream = "readable"
\* controller.enqueue(value) on a readable stream
EnqueueChunk_Dropped(written, value) == written
EnqueueChunk(written, value) == Append(written, value)

\* abortController.abort(): the signal given to fetch cancels the request
\* and the body of its response, read or not
AbortUpstream(upstream) ==
  IF upstream \in {"connecting", "open", "unread"} THEN "cancelled" ELSE upstream

IdleRelay ==
  [pc |-> "idle", fetched |-> NoUpstream, response |-> NoRelayResponse,
   upstream |-> "none", stream |-> "none", aborted |-> FALSE,
   cancelled |-> FALSE, read |-> <<>>, written |-> <<>>,
   afterNotice |-> 0, thrown |-> "none"]

\* ----------------------------------------------------------------- Init

IdleUrlCheck == [pc |-> "idle"]

\* no updates have been drawn yet for sending one after another
NoBatch == [chosen |-> FALSE]

\* no session update is between its read and its write
NoSessionUpdate == [pc |-> "idle"]

IdleRequest ==
  [pc |-> "idle", body |-> NoBody, session_id |-> 0,
   ins |-> [m \in MODELS_TO_RUN |-> "none"],
   backend |-> NoBackend, response |-> NoResponse]

Init ==
  /\ sessions = [r \in AllRequests |-> NoRow]
  /\ benchmarks = [k \in BenchmarkKeys |-> NoRow]
  /\ txns = [k \in BenchmarkKeys |-> NoTxn]
  /\ req = [r \in AllRequests |-> IdleRequest]
  /\ nUpdates = 0
  /\ nSessionUpdates = 0
  /\ reader = IdleReader
  /\ relay = IdleRelay
  /\ urlCheck = IdleUrlCheck
  /\ batch = NoBatch
  /\ sessionUpdate = NoSessionUpdate


\* -------------------------------------------------------------- actions

\* a store that has no UNIQUE constraint on the identifier
IdentifierTaken_Never(ident) == FALSE

\* session_id TEXT UNIQUE: a row with this identifier exists
IdentifierTaken(ident) ==
  \E q \in AllRequests : sessions[q] # NoRow /\ sessions[q].session_id = ident

\* POST /api/benchmark up to the Promise.all: the body is validated, the
\* session id generated, the session row inserted (UNIQUE session_id, the
\* CHECK constraints, the reference to auth.users) and the N inserts issued
StartBenchmark(r, body) ==
  /\ Observing
  /\ req[r].pc = "idle"
  /\ IF MissingFields(body)
       THEN /\ req' = [req EXCEPT ![r].pc = "done", ![r].body = body,
                         ![r].response = BadRequest("Missing required fields")]
            /\ UNCHANGED sessions
       ELSE IF ~validateUrl(normalizeUrl(body.websiteUrl))
       THEN /\ req' = [req EXCEPT ![r].pc = "done", ![r].body = body,
                         ![r].response = BadRequest("Invalid website URL")]
            /\ UNCHANGED sessions
       ELSE \E ident \in SessionIdentifiers :
         IF \/ IdentifierTaken(ident)
            \/ ~SessionInsertOk(NewSession(ident, body))
           THEN /\ req' = [req EXCEPT ![r].pc = "done", ![r].body = body,
                                       ![r].session_id = ident,
                                       ![r].response = CatchResponse(FALSE, <<>>)]
                /\ UNCHANGED sessions
           ELSE /\ sessions' = [sessions EXCEPT ![r] = NewSession(ident, body)]
                /\ req' = [req EXCEPT ![r].pc = "inserting", ![r].body = body,
                                       ![r].session_id = ident,
                                       ![r].ins = [m \in MODELS_TO_RUN |-> "issued"]]
  /\ UNCHANGED <<benchmarks, txns, nUpdates, nSessionUpdates>>
  /\ UNCHANGED otherVars

\* a create-session request of the session lifecycle
CreateBenchmarkSession(r) == \E body \in LifecycleBodies : StartBenchmark(r, body)

\* any create-session request
PostBenchmark(r) == \E body \in RequestBodies : StartBenchmark(r, body)

\* createBenchmark for one model: the INSERT and the snapshot of its trigger
CreateBenchmark(r, m) ==
  /\ Observing
  /\ req[r].ins[m] = "issued"
  /\ txns[<<r, m>>] = NoTxn
  /\ benchmarks[<<r, m>>] = NoRow
  /\ txns' = [txns EXCEPT ![<<r, m>>] =
                 OpenTxn("insert", <<r, m>>, NewBenchmark(r, req[r].session_id, m))]
  /\ UNCHANGED <<sessions, benchmarks, req, nUpdates, nSessionUpdates>>
  /\ UNCHANGED otherVars

\* createBenchmark for one model when the store reports an error
CreateBenchmarkFails(r, m) ==
  /\ Observing
  /\ req[r].ins[m] = "issued"
  /\ txns[<<r, m>>] = NoTxn
  /\ req' = [req EXCEPT ![r].ins[m] = "err"]
  /\ UNCHANGED <<sessions, benchmarks, txns, nUpdates, nSessionUpdates>>
  /\ UNCHANGED otherVars

\* second half of a transaction on a benchmarks row: the trigger writes the
\* session row and the transaction commits
TriggerCommit(k) ==
  /\ Observing
  /\ txns[k] # NoTxn
  /\ LET t == txns[k]
         r == k[1]
         new == update_benchmark_session_stats(sessions[r], t.cnt, t.succ, t.total)
     IN IF SessionChecksOk(new)
          THEN /\ sessions' = [sessions EXCEPT ![r] = new]
               /\ benchmarks' = [benchmarks EXCEPT ![k] = t.row]
               /\ req' = IF t.kind = "insert"
                           THEN [req EXCEPT ![r].ins[k[2]] = "ok"]
                           ELSE req
          ELSE /\ req' = IF t.kind = "insert"
                           THEN [req EXCEPT ![r].ins[k[2]] = "err"]
                           ELSE req
               /\ UNCHANGED <<sessions, benchmarks>>
  /\ txns' = [txns EXCEPT ![k] = NoTxn]
  /\ UNCHANGED <<nUpdates, nSessionUpdates>>
  /\ UNCHANGED otherVars

\* a handler that goes on when the first insert has returned
PromiseAllResolves_AnyInsert(r) ==
  /\ Observing
  /\ req[r].pc = "inserting"
  /\ \E m \in MODELS_TO_RUN : req[r].ins[m] = "ok"
  /\ req' = [req EXCEPT ![r].pc = "fetching"]
  /\ UNCHANGED <<sessions, benchmarks, txns, nUpdates, nSessionUpdates>>
  /\ UNCHANGED otherVars

\* Promise.all resolves: every insert returned an id; the fetch is issued
PromiseAllResolves(r) ==
  /\ Observing
  /\ req[r].pc = "inserting"
  /\ \A m \in MODELS_TO_RUN : req[r].ins[m] = "ok"
  /\ req' = [req EXCEPT ![r].pc = "fetching"]
  /\ UNCHANGED <<sessions, benchmarks, txns, nUpdates, nSessionUpdates>>
  /\ UNCHANGED otherVars

\* Promise.all rejects with the first insert error: the catch block answers
PromiseAllRejects(r) ==
  /\ Observing
  /\ req[r].pc = "inserting"
  /\ \E m \in MODELS_TO_RUN : req[r].ins[m] = "err"
  /\ req' = [req EXCEPT ![r].pc = "done", ![r].response = CatchResponse(FALSE, <<>>)]
  /\ UNCHANGED <<sessions, benchmarks, txns, nUpdates, nSessionUpdates>>
  /\ UNCHANGED otherVars

\* the backend answers ok: its body is parsed inside the try, and a body
\* that is not JSON takes the handler to the catch block
FetchOk(r) ==
  /\ Observing
  /\ req[r].pc = "fetching"
  /\ \E b \in BackendOks :
       req' = [req EXCEPT ![r].pc = "done", ![r].backend = b,
                          ![r].response =
                             IF IsJson(b.body) THEN SuccessResponse
                             ELSE CatchResponse(TRUE, SyntaxErrorMessage(b.body))]
  /\ UNCHANGED <<sessions, benchmarks, txns, nUpdates, nSessionUpdates>>
  /\ UNCHANGED otherVars

\* the failure path as its comment describes it, marking the session itself
\* failed instead of calling updateBenchmarkStatus with the session's uuid
FetchNotOk_MarksSession(r) ==
  /\ Observing
  /\ req[r].pc = "fetching"
  /\ \E b \in BackendHttpErrors :
       req' = [req EXCEPT ![r].pc = "done", ![r].backend = b,
                          ![r].response = CatchResponse(TRUE, ThrownMessage(b.body))]
  /\ sessions' = [sessions EXCEPT ![r] = UpdatedSession(@, "failed", Undefined, Undefined)]
  /\ UNCHANGED <<benchmarks, txns, nUpdates, nSessionUpdates>>
  /\ UNCHANGED otherVars

\* the backend answers with a non-ok status: updateBenchmarkStatus is called
\* with the session's uuid, then the error is thrown to the catch block
FetchNotOk(r) ==
  /\ Observing
  /\ req[r].pc = "fetching"
  /\ RowsFree(SessionUuid(r))
  /\ \E b \in BackendHttpErrors :
       req' = [req EXCEPT ![r].pc = "done", ![r].backend = b,
                          ![r].response = CatchResponse(TRUE, ThrownMessage(b.body))]
  /\ txns' = updateBenchmarkStatus(SessionUuid(r), "failed", Undefined, Undefined)
  /\ UNCHANGED <<sessions, benchmarks, nUpdates, nSessionUpdates>>
  /\ UNCHANGED otherVars

\* the fetch rejects: the catch block answers
FetchThrows(r) ==
  /\ Observing
  /\ req[r].pc = "fetching"
  /\ req' = [req EXCEPT ![r].pc = "done", ![r].backend = BackendThrows,
                         ![r].response = CatchResponse(TRUE, BackendThrows.message)]
  /\ UNCHANGED <<sessions, benchmarks, txns, nUpdates, nSessionUpdates>>
  /\ UNCHANGED otherVars

\* the update requests received so far, of records and of sessions
OperationsBegun ==
  nUpdates + nSessionUpdates + (IF sessionUpdate # NoSessionUpdate THEN 1 ELSE 0)

\* POST /api/benchmark/update: the UPDATE of the row and the snapshot of
\* its trigger; an UPDATE that finds no row changes nothing and fires no
\* trigger, so only ids that find a row are drawn. The handler takes any
\* status the column's CHECK admits, for any record that is committed,
\* whether or not create-session has got to its start call
UpdateBenchmark(Times) ==
  /\ Observing
  /\ nUpdates < MaxUpdates
  /\ OperationsBegun < MaxOperations
  /\ \E id \in AllUuids, status \in BenchmarkStatus, success \in Optional(BOOLEAN),
        execution_time_ms \in Times :
       /\ MatchingBenchmarks(id) # {}
       /\ RowsFree(id)
       /\ txns' = updateBenchmarkStatus(id, status, success, execution_time_ms)
  /\ nUpdates' = nUpdates + 1
  /\ UNCHANGED <<sessions, benchmarks, req, nSessionUpdates>>
  /\ UNCHANGED otherVars

\* an update that reports no execution time
PostUpdate == UpdateBenchmark({Undefined})

\* an update that reports the status and the execution time of the run
PostTimedUpdate ==
  /\ nUpdates < MaxTimedUpdates
  /\ UpdateBenchmark({Some(t) : t \in ExecutionTimes})

\* POST /api/benchmark/session/update up to the answer of its SELECT: the
\* session is found through its records (benchmarks[0].session_id). Of the
\* body only session_identifier is used here; status and the counts are used
\* by the write alone and are drawn there
PostSessionUpdate ==
  /\ Observing
  /\ sessionUpdate = NoSessionUpdate
  /\ nSessionUpdates < MaxSessionUpdates
  /\ OperationsBegun < MaxOperations
  /\ \E ident \in SessionIdentifiers :
       /\ BenchmarksBySessionIdentifier(ident) # {}
       /\ \E k \in BenchmarksBySessionIdentifier(ident) :
            sessionUpdate' = [pc |-> "found", session |-> k[1]]
  /\ UNCHANGED <<sessions, benchmarks, txns, req, nUpdates, nSessionUpdates>>
  /\ UNCHANGED <<reader, relay, urlCheck, batch>>

\* the counts a body can carry: none (the column is left alone), a number,
\* or the JSON null, which Object.assign copies and the UPDATE writes as NULL
BodyCounts == Optional((0..(NumModels + 1)) \cup {Null})

\* the rest of the handler: db.updateSessionStatus writes the session found,
\* subject to the CHECK constraints, in a request of its own
UpdateSessionStatus ==
  /\ Observing
  /\ sessionUpdate # NoSessionUpdate
  /\ \E status \in SessionStatus, completed \in BodyCounts,
        successful \in BodyCounts :
       LET r == sessionUpdate.session
           new == UpdatedSession(sessions[r], status, completed, successful)
       IN sessions' = [sessions EXCEPT ![r] = IF SessionChecksOk(new) THEN new ELSE @]
  /\ nSessionUpdates' = nSessionUpdates + 1
  /\ sessionUpdate' = NoSessionUpdate
  /\ UNCHANGED <<benchmarks, txns, req, nUpdates>>
  /\ UNCHANGED <<reader, relay, urlCheck, batch>>

Next ==
  \/ \E r \in Requests : CreateBenchmarkSession(r)
  \/ \E r \in Requests, m \in MODELS_TO_RUN : CreateBenchmark(r, m)
  \/ \E r \in Requests, m \in MODELS_TO_RUN : CreateBenchmarkFails(r, m)
  \/ \E k \in BenchmarkKeys : TriggerCommit(k)
  \/ \E r \in Requests : PromiseAllResolves(r)
  \/ \E r \in Requests : PromiseAllRejects(r)
  \/ \E r \in Requests : FetchOk(r)
  \/ \E r \in Requests : FetchNotOk(r)
  \/ \E r \in Requests : FetchThrows(r)
  \/ PostUpdate
  \/ PostSessionUpdate
  \/ UpdateSessionStatus

Spec == Init /\ [][Next]_vars

\* ------------------------------------------- create-session, any request

NextCreate ==
  \/ \E r \in Requests : PostBenchmark(r)
  \/ \E r \in Requests, m \in MODELS_TO_RUN : CreateBenchmark(r, m)
  \/ \E r \in Requests, m \in MODELS_TO_RUN : CreateBenchmarkFails(r, m)
  \/ \E k \in BenchmarkKeys : TriggerCommit(k)
  \/ \E r \in Requests : PromiseAllResolves(r)
  \/ \E r \in Requests : PromiseAllRejects(r)
  \/ \E r \in Requests : FetchOk(r)
  \/ \E r \in Requests : FetchNotOk(r)
  \/ \E r \in Requests : FetchThrows(r)

SpecCreate == Init /\ [][NextCreate]_vars

\* --------------------------------------------- normalizeUrl, validateUrl

\* a URL string is given
SubmitUrl ==
  /\ urlCheck.pc = "idle"
  /\ \E url \in UrlStrings : urlCheck' = [pc |-> "submitted", input |-> url]
  /\ UNCHANGED <<dbVars, reader, relay>>

\* const normalizedUrl = normalizeUrl(websiteUrl); validateUrl(normalizedUrl)
CheckUrl ==
  /\ urlCheck.pc = "submitted"
  /\ urlCheck' = [pc |-> "checked", input |-> urlCheck.input,
                  normalized |-> normalizeUrl(urlCheck.input),
                  valid |-> validateUrl(normalizeUrl(urlCheck.input))]
  /\ UNCHANGED <<dbVars, reader, relay>>

NextUrl ==
  \/ SubmitUrl
  \/ CheckUrl

SpecUrl == Init /\ [][NextUrl]_vars

\* --------------------------------- GET /api/benchmark/stream/[sessionId]

Noticed == relay.aborted \/ relay.cancelled

\* the handler registers the abort listener and issues the fetch
RelayGet ==
  /\ relay.pc = "idle"
  /\ relay' = [relay EXCEPT !.pc = "fetching", !.upstream = "connecting"]
  /\ UNCHANGED <<dbVars, reader, urlCheck>>

\* the fetch rejects (no connection, or the abort): the outer catch block
RelayFetchThrows ==
  /\ relay.pc = "fetching"
  /\ relay' = [relay EXCEPT !.pc = "done", !.fetched = UpstreamThrows,
                            !.upstream = AbortUpstream(relay.upstream),
                            !.response = RelayCatchResponse]
  /\ UNCHANGED <<dbVars, reader, urlCheck>>

\* the fetch resolves: an error response for a status that is not ok,
\* otherwise the stream is built, start(controller) runs and the response
\* with the stream is returned
RelayFetchResolves ==
  /\ relay.pc = "fetching"
  /\ relay.upstream = "connecting"
  /\ \E res \in UpstreamResponses :
       IF ~ResponseOk(res.status)
         THEN relay' = [relay EXCEPT !.pc = "done", !.fetched = res,
                                     !.upstream = "unread",
                                     !.response = RelayErrorResponse(res.status)]
       ELSE IF ~res.body
         THEN relay' = [relay EXCEPT !.pc = "done", !.fetched = res,
                                     !.upstream = "closed", !.stream = "closed",
                                     !.response = RelayStreamResponse]
         ELSE relay' = [relay EXCEPT !.pc = "pumping", !.fetched = res,
                                     !.upstream = "open", !.stream = "readable",
                                     !.response = RelayStreamResponse]
  /\ UNCHANGED <<dbVars, reader, urlCheck>>

\* the top of the while loop: break when aborted, else reader.read()
PumpLoop ==
  /\ relay.pc = "pumping"
  /\ relay' = [relay EXCEPT !.pc = IF relay.aborted THEN "done" ELSE "reading"]
  /\ UNCHANGED <<dbVars, reader, urlCheck>>

\* reader.read() resolves with the next chunk of the upstream stream
ReadChunk ==
  /\ relay.pc = "reading"
  /\ relay.upstream = "open"
  /\ Len(relay.read) < MaxChunks
  /\ relay' = [relay EXCEPT !.pc = "read",
                            !.read = Append(relay.read, Len(relay.read) + 1),
                            !.afterNotice = IF Noticed THEN @ + 1 ELSE @]
  /\ UNCHANGED <<dbVars, reader, urlCheck>>

\* the chunk read is enqueued if desiredSize is not null; an enqueue on a
\* stream that is not readable throws, which the catch block takes
Enqueue ==
  /\ relay.pc = "read"
  /\ IF DesiredSizeIsNull(relay.stream)
       THEN relay' = [relay EXCEPT !.pc = "done"]
       ELSE IF CanCloseOrEnqueue(relay.stream)
         THEN relay' = [relay EXCEPT !.pc = "pumping",
                          !.written = EnqueueChunk(relay.written, relay.read[Len(relay.read)])]
         ELSE relay' = [relay EXCEPT !.pc = "done", !.thrown = "enqueue"]
  /\ UNCHANGED <<dbVars, reader, urlCheck>>

\* reader.read() resolves with done: controller.close() if desiredSize is
\* not null, which throws on a stream that is not readable
ReadDone ==
  /\ relay.pc = "reading"
  /\ relay.upstream = "open"
  /\ IF DesiredSizeIsNull(relay.stream)
       THEN relay' = [relay EXCEPT !.pc = "done", !.upstream = "closed"]
       ELSE IF CanCloseOrEnqueue(relay.stream)
         THEN relay' = [relay EXCEPT !.pc = "done", !.upstream = "closed",
                                     !.stream = "closed"]
         ELSE relay' = [relay EXCEPT !.pc = "done", !.upstream = "closed",
                                     !.thrown = "close"]
  /\ UNCHANGED <<dbVars, reader, urlCheck>>

\* reader.read() rejects because the upstream connection broke:
\* controller.error(error) if desiredSize is not null (no effect on a stream
\* that is not readable)
ReadFails ==
  /\ relay.pc = "reading"
  /\ relay.upstream = "open"
  /\ relay' = [relay EXCEPT !.pc = "done", !.upstream = "errored",
                            !.stream = IF CanCloseOrEnqueue(relay.stream)
                                         THEN "errored" ELSE @]
  /\ UNCHANGED <<dbVars, reader, urlCheck>>

\* reader.read() rejects with the AbortError: nothing is done to the stream
ReadAborted ==
  /\ relay.pc = "reading"
  /\ relay.upstream = "cancelled"
  /\ relay' = [relay EXCEPT !.pc = "done"]
  /\ UNCHANGED <<dbVars, reader, urlCheck>>

\* the caller has disconnected: request.signal fires and the listener calls
\* abortController.abort()
AbortFires ==
  /\ relay.pc # "idle"
  /\ ~relay.aborted
  /\ relay' = [relay EXCEPT !.aborted = TRUE,
                            !.upstream = AbortUpstream(relay.upstream)]
  /\ UNCHANGED <<dbVars, reader, urlCheck>>

\* the caller has disconnected: the response stream is cancelled (the
\* underlying source has no cancel callback)
CancelStream ==
  /\ relay.stream = "readable"
  /\ relay' = [relay EXCEPT !.stream = "closed", !.cancelled = TRUE]
  /\ UNCHANGED <<dbVars, reader, urlCheck>>

NextRelay ==
  \/ RelayGet
  \/ RelayFetchThrows
  \/ RelayFetchResolves
  \/ PumpLoop
  \/ ReadChunk
  \/ Enqueue
  \/ ReadDone
  \/ ReadFails
  \/ ReadAborted
  \/ AbortFires
  \/ CancelStream

SpecRelay == Init /\ [][NextRelay]_vars

\* ------------------------------------------ get-session and list-sessions

\* GET /api/benchmark/[sessionId] by some user: the first query of
\* getSessionSummary; without a row the handler answers 404
GetSession ==
  /\ reader.pc = "idle"
  /\ \E caller \in AuthUsers, id \in RequestUuids :
       IF SessionsById(id) = {}
         THEN reader' = [reader EXCEPT !.pc = "done", !.op = "get",
                                      !.caller = caller, !.arg = id,
                                      !.response = NotFoundResponse]
         ELSE reader' = [reader EXCEPT !.pc = "records", !.op = "get",
                                      !.caller = caller, !.arg = id,
                                      !.rows = [r \in SessionsById(id) |-> sessions[r]]]
  /\ UNCHANGED <<dbVars, relay, urlCheck>>

\* GET /api/benchmark?userId= by some user: 400 without userId, else the
\* first query of getUserSessions (the limit exceeds the sessions there are)
ListSessions ==
  /\ reader.pc = "idle"
  /\ \E caller \in AuthUsers, userId \in {0} \cup AuthUsers :
       IF userId = 0
         THEN reader' = [reader EXCEPT !.pc = "done", !.op = "list",
                                      !.caller = caller, !.arg = userId,
                                      !.response = MissingUserResponse]
         ELSE reader' = [reader EXCEPT !.pc = "records", !.op = "list",
                                      !.caller = caller, !.arg = userId,
                                      !.rows = [r \in SessionsByUser(userId) |-> sessions[r]]]
  /\ UNCHANGED <<dbVars, relay, urlCheck>>

\* the second query: the records of the sessions found, and the summaries
ReadRecords ==
  /\ reader.pc = "records"
  /\ reader' = [reader EXCEPT
       !.pc = "done",
       !.response = DataResponse([r \in DOMAIN reader.rows |->
                                   SessionSummary(r, reader.rows[r])])]
  /\ UNCHANGED <<dbVars, relay, urlCheck>>

NextRead ==
  \/ \E r \in Requests : CreateBenchmarkSession(r)
  \/ \E r \in Requests, m \in MODELS_TO_RUN : CreateBenchmark(r, m)
  \/ \E r \in Requests, m \in MODELS_TO_RUN : CreateBenchmarkFails(r, m)
  \/ \E k \in BenchmarkKeys : TriggerCommit(k)
  \/ \E r \in Requests : PromiseAllResolves(r)
  \/ \E r \in Requests : PromiseAllRejects(r)
  \/ \E r \in Requests : FetchOk(r)
  \/ \E r \in Requests : FetchNotOk(r)
  \/ \E r \in Requests : FetchThrows(r)
  \/ PostTimedUpdate
  \/ GetSession
  \/ ListSessions
  \/ ReadRecords

SpecRead == Init /\ [][NextRead]_vars

\* ------------------------- POST /api/benchmark, two requests, one identifier

NextCollide ==
  \/ \E r \in AllRequests : CreateBenchmarkSession(r)
  \/ \E r \in AllRequests, m \in MODELS_TO_RUN : CreateBenchmark(r, m)
  \/ \E r \in AllRequests, m \in MODELS_TO_RUN : CreateBenchmarkFails(r, m)
  \/ \E k \in BenchmarkKeys : TriggerCommit(k)
  \/ \E r \in AllRequests : PromiseAllResolves(r)
  \/ \E r \in AllRequests : PromiseAllRejects(r)
  \/ \E r \in AllRequests : FetchOk(r)
  \/ \E r \in AllRequests : FetchNotOk(r)
  \/ \E r \in AllRequests : FetchThrows(r)

SpecCollide == Init /\ [][NextCollide]_vars

\* ----------------------- POST /api/benchmark/update, one after another

\* the completion updates the Execution Backend can send for one record
CompletionUpdates == [status : {"completed", "failed"}, success : Optional(BOOLEAN)]

\* a set of updates, at most one per record of the session
Batches == [MODELS_TO_RUN -> Optional(CompletionUpdates)]

\* every earlier request has returned and its transaction has committed
Sequential == txns = [k \in BenchmarkKeys |-> NoTxn]

\* the updates to send are fixed once create-session has succeeded
ChooseBatch ==
  /\ batch = NoBatch
  /\ Sequential
  /\ \E r \in Requests, updates \in Batches :
       /\ req[r].pc = "done" /\ req[r].response.status = 200
       /\ batch' = [chosen |-> TRUE, session |-> r, updates |-> updates,
                    left |-> {m \in MODELS_TO_RUN : updates[m].defined},
                    repeats |-> 0, repeating |-> FALSE]
  /\ UNCHANGED <<sessions, benchmarks, txns, req, nUpdates, nSessionUpdates>>
  /\ UNCHANGED <<reader, relay, urlCheck, sessionUpdate>>

\* the update of record m as the handler makes it
SendUpdate(m) ==
  LET u == batch.updates[m].value
  IN /\ txns' = updateBenchmarkStatus(BenchmarkUuid(<<batch.session, m>>),
                                      u.status, u.success, Undefined)
     /\ nUpdates' = nUpdates + 1
     /\ UNCHANGED <<sessions, benchmarks, req, nSessionUpdates>>
     /\ UNCHANGED <<reader, relay, urlCheck, sessionUpdate>>

\* one of the updates not yet sent is sent, in any order
ApplyUpdate(m) ==
  /\ batch # NoBatch
  /\ Sequential
  /\ m \in batch.left
  /\ SendUpdate(m)
  /\ batch' = [batch EXCEPT !.left = @ \ {m}, !.repeating = FALSE]

\* an update already sent is sent again, unchanged
ReapplyUpdate(m) ==
  /\ batch # NoBatch
  /\ Sequential
  /\ batch.updates[m].defined /\ m \notin batch.left
  /\ batch.repeats < MaxRepeats
  /\ SendUpdate(m)
  /\ batch' = [batch EXCEPT !.repeats = @ + 1, !.repeating = TRUE]

NextSeq ==
  \/ \E r \in Requests : CreateBenchmarkSession(r)
  \/ \E r \in Requests, m \in MODELS_TO_RUN : CreateBenchmark(r, m)
  \/ \E k \in BenchmarkKeys : TriggerCommit(k)
  \/ \E r \in Requests : PromiseAllResolves(r)
  \/ \E r \in Requests : FetchOk(r)
  \/ ChooseBatch
  \/ \E m \in MODELS_TO_RUN : ApplyUpdate(m)
  \/ \E m \in MODELS_TO_RUN : ReapplyUpdate(m)

SpecSeq == Init /\ [][NextSeq]_vars

\* ------------------- POST /api/benchmark/update, one completion per record

\* the start call of request r has been issued
StartCallIssued(r) == req[r].pc = "fetching" \/ req[r].backend # NoBackend

\* the Execution Backend reports the outcome of the run of record k, once:
\* POST /api/benchmark/update with the record's id and completed or failed.
\* It reports the runs it was asked to start, so after the start call
CompleteRecord(k) ==
  /\ Observing
  /\ StartCallIssued(k[1])
  /\ benchmarks[k] # NoRow /\ benchmarks[k].status = "pending"
  /\ RowsFree(BenchmarkUuid(k))
  /\ \E u \in CompletionUpdates :
       txns' = updateBenchmarkStatus(BenchmarkUuid(k), u.status, u.success, Undefined)
  /\ nUpdates' = nUpdates + 1
  /\ UNCHANGED <<sessions, benchmarks, req, nSessionUpdates>>
  /\ UNCHANGED otherVars

NextLive ==
  \/ \E r \in Requests : CreateBenchmarkSession(r)
  \/ \E r \in Requests, m \in MODELS_TO_RUN : CreateBenchmark(r, m)
  \/ \E k \in BenchmarkKeys : TriggerCommit(k)
  \/ \E r \in Requests : PromiseAllResolves(r)
  \/ \E r \in Requests : FetchOk(r)
  \/ \E k \in BenchmarkKeys : CompleteRecord(k)

\* every request is handled to its response, every transaction commits, and
\* the Execution Backend reports every run
SpecLive ==
  /\ Init /\ [][NextLive]_vars
  /\ \A r \in Requests :
       /\ WF_vars(CreateBenchmarkSession(r))
       /\ WF_vars(PromiseAllResolves(r))
       /\ WF_vars(FetchOk(r))
       /\ \A m \in MODELS_TO_RUN : WF_vars(CreateBenchmark(r, m))
  /\ \A k \in BenchmarkKeys :
       /\ WF_vars(TriggerCommit(k))
       /\ WF_vars(CompleteRecord(k))

\* ------------------------------------------------------------ properties

Quiescent == \A k \in BenchmarkKeys : txns[k] = NoTxn
Untouched == nUpdates = 0 /\ nSessionUpdates = 0
BackendFailed(q) == q.pc = "done" /\ q.backend.kind \in {"http", "network"}
Recomputes(k) == txns[k] # NoTxn /\ txns'[k] = NoTxn
StatusIffAllResolved(row) ==
  (row.status = "completed") <=> (row.completed_models = row.total_models)

\* C1: every session has 0 <= successful_models <= completed_models <=
\* total_models in every reachable state
C1_CountsOrdered ==
  \A r \in Requests :
     sessions[r] # NoRow =>
       LET row == sessions[r]
       IN /\ IsTrue(0, row.successful_models, 0 <= row.successful_models)
          /\ IsTrue(row.successful_models, row.completed_models,
                    row.successful_models <= row.completed_models)
          /\ IsTrue(row.completed_models, row.total_models,
                    row.completed_models <= row.total_models)

\* C2: when two or more records of a session have been completed or failed
\* and the recomputations their updates triggered have all finished,
\* completed_models is the number of records with status completed or
\* failed, however the updates interleaved (no session update is made)
C2_NoLostUpdate ==
  \A r \in Requests :
     (Quiescent /\ nSessionUpdates = 0 /\ ResolvedCount(benchmarks, r) >= 2) =>
        sessions[r].completed_models = ResolvedCount(benchmarks, r)

\* C3 as claimed: in every reachable state a session is completed exactly
\* when completed_models = total_models
C3_CompletedIffAllResolved ==
  \A r \in Requests : sessions[r] # NoRow => StatusIffAllResolved(sessions[r])

\* C3 as amended: every write of a session row by create-session or by the
\* aggregation rule leaves it completed exactly when completed_models =
\* total_models; only the session update writes a row that is not
C3_RuleKeepsIff ==
  [][\A r \in Requests :
       (sessions'[r] # sessions[r] /\ nSessionUpdates' = nSessionUpdates)
          => StatusIffAllResolved(sessions'[r])]_vars

C3_Witness ==
  \E r \in Requests :
     /\ sessions[r] # NoRow
     /\ nSessionUpdates = 0
     /\ sessions[r].status = "completed"
     /\ sessions[r].completed_models = sessions[r].total_models

\* C4: a session that is completed is never running again; stated for the
\* steps of record updates, where no session update has been made
C4_CompletedNeverRegresses ==
  [][\A r \in Requests :
       (sessions[r] # NoRow /\ sessions[r].status = "completed" /\ nSessionUpdates' = 0)
          => sessions'[r].status # "running"]_vars

\* C5: when create-session has succeeded and nothing else has touched the
\* session, there is its session row (running, total_models = N, both counts
\* 0) and exactly N records, one per configured model, each pending and
\* carrying the session's external identifier
C5_CreateProducesRows ==
  \A r \in Requests :
     (req[r].pc = "done" /\ req[r].response.status = 200 /\ Untouched) =>
        /\ sessions[r] # NoRow
        /\ sessions[r].status = "running"
        /\ sessions[r].total_models = NumModels
        /\ sessions[r].completed_models = 0
        /\ sessions[r].successful_models = 0
        /\ sessions[r].session_id = req[r].session_id
        /\ Cardinality({k \in BenchmarkKeys :
               benchmarks[k] # NoRow /\ benchmarks[k].session_id = SessionUuid(r)}) = NumModels
        /\ \A m \in MODELS_TO_RUN :
              /\ benchmarks[<<r, m>>] # NoRow
              /\ benchmarks[<<r, m>>].model_id = m
              /\ benchmarks[<<r, m>>].status = "pending"
              /\ benchmarks[<<r, m>>].session_identifier = sessions[r].session_id

C5_Witness ==
  \E r \in Requests :
     /\ req[r].pc = "done" /\ req[r].response.status = 200 /\ Untouched
     /\ \A m \in MODELS_TO_RUN : benchmarks[<<r, m>>] # NoRow

\* C6: whenever no recomputation is pending, completed_models is the number
\* of records completed or failed and successful_models the number of
\* records completed with success = true; stated for the states no session
\* update has written
C6_CountsMatchRecords ==
  (Quiescent /\ nSessionUpdates = 0) =>
     \A r \in Requests :
        sessions[r] # NoRow =>
          /\ sessions[r].completed_models = ResolvedCount(benchmarks, r)
          /\ sessions[r].successful_models = SuccessfulCount(benchmarks, r)

\* C7: a recomputation that counts fewer resolved records than total_models
\* leaves the session's status as it was, whatever that status is
C7_StatusUnchangedBelowTotal ==
  [][\A k \in BenchmarkKeys :
       (Recomputes(k) /\ txns[k].cnt < txns[k].total)
          => sessions'[k[1]].status = sessions[k[1]].status]_vars

\* C8: when create-session has returned after a failed start call and
\* nothing else has touched the session, the session is failed
C8_SessionFailedOnBackendFailure ==
  \A r \in Requests :
     (BackendFailed(req[r]) /\ Untouched) => sessions[r].status = "failed"

\* C9: when the start call returned HTTP 503, the response of
\* create-session is the one that reports the backend as not available
C9_Http503ReportsUnavailable ==
  \A r \in Requests :
     (req[r].pc = "done" /\ req[r].backend.kind = "http" /\ req[r].backend.status = 503)
        => /\ req[r].response.status = 503
           /\ req[r].response.error = "Python BrowserUse API not available"

\* C10: the step of create-session that handles a failed start call
\* changes no record and starts no write of one
C10_FailurePathKeepsRecords ==
  [][\A r \in Requests :
       (req[r].pc = "fetching" /\ BackendFailed(req'[r]))
          => (benchmarks' = benchmarks /\ txns' = txns)]_vars

C10_Witness ==
  \E r \in Requests :
     /\ BackendFailed(req[r])
     /\ req[r].backend.kind = "http"
     /\ Quiescent
     /\ \A m \in MODELS_TO_RUN :
           benchmarks[<<r, m>>] # NoRow /\ benchmarks[<<r, m>>].status = "pending"

\* ---------------------------------------------- create-session validation

\* the request URLs that are no URL after normalization: the empty one and
\* the one with a blank in the host ("not a url")
MalformedUrls == {<<>>, <<"a", " ", "a">>}
Malformed(body) == body.websiteUrl \in MalformedUrls
TooShort(body) == body.taskDescription < 5
NothingPersisted(r) ==
  /\ sessions[r] = NoRow
  /\ \A m \in MODELS_TO_RUN : benchmarks[<<r, m>>] = NoRow /\ txns[<<r, m>>] = NoTxn
Rejected(r) == req[r].pc = "done" /\ req[r].response.status \in {400, 500}

\* C11: a create-session request with a malformed URL or a task text of
\* fewer than 5 characters is rejected, no session row and no record row
\* exists for it, and the Execution Backend is never called
C11_RejectedWithoutPersistence ==
  \A r \in Requests :
    (req[r].pc # "idle" /\ (Malformed(req[r].body) \/ TooShort(req[r].body))) =>
      /\ Rejected(r)
      /\ NothingPersisted(r)
      /\ req[r].backend = NoBackend

\* a request with a blank in its URL and a long enough task has been answered
C11_Witness ==
  \E r \in Requests :
    /\ req[r].pc = "done"
    /\ req[r].body.websiteUrl = <<"a", " ", "a">>
    /\ req[r].body.taskDescription = 5
    /\ req[r].body.userId \in AuthUsers
    /\ req[r].response.status = 400

\* a URL that is valid and long enough for the store, and a known owner
ValidUrlAndOwner(body) ==
  /\ body.websiteUrl \in {<<"a", ".", "a">>, <<"http", ":", "/", "/", "a", ".", "a">>}
  /\ body.userId \in AuthUsers
Collided(r) ==
  \E q \in AllRequests \ {r} :
    sessions[q] # NoRow /\ sessions[q].session_id = req[r].session_id

\* C12: given a valid URL and owner id, a task description of fewer than 5
\* characters is rejected without a session, and one of exactly 5 characters
\* gets its session (unless the generated identifier is taken)
C12_TaskLengthBoundary ==
  \A r \in Requests :
    (req[r].pc # "idle" /\ ValidUrlAndOwner(req[r].body)) =>
      /\ req[r].body.taskDescription < 5 => Rejected(r) /\ sessions[r] = NoRow
      /\ req[r].body.taskDescription = 5 => sessions[r] # NoRow \/ Collided(r)

\* a task of exactly 5 characters has its session and the benchmark started
C12_Witness ==
  \E r \in Requests :
    /\ ValidUrlAndOwner(req[r].body)
    /\ req[r].body.taskDescription = 5
    /\ req[r].pc = "done"
    /\ req[r].response.status = 200
    /\ sessions[r] # NoRow

\* ----------------------------------------------- normalizeUrl, validateUrl

\* the input has the scheme http or https, as a URL parser reads it
HasHttpScheme(url) ==
  HasScheme(Trim(url)) /\ Scheme(Trim(url)) \in {<<"http">>, <<"http", "s">>}

\* C13: normalizeUrl prepends https:// exactly when the input has no http or
\* https scheme and returns it unchanged otherwise; the normalized value is
\* valid only with protocol http or https; example.com becomes
\* https://example.com and is valid, "not a url" is invalid
C13_PrependsIffNoScheme ==
  urlCheck.pc = "checked" =>
    /\ HasHttpScheme(urlCheck.input) => urlCheck.normalized = urlCheck.input
    /\ ~HasHttpScheme(urlCheck.input) =>
         urlCheck.normalized = <<"http", "s", ":", "/", "/">> \o urlCheck.input
    /\ urlCheck.valid => HasHttpScheme(urlCheck.normalized)
    /\ urlCheck.input = <<"a", ".", "a">> =>
         /\ urlCheck.normalized = <<"http", "s", ":", "/", "/", "a", ".", "a">>
         /\ urlCheck.valid
    /\ urlCheck.input = <<"a", " ", "a", " ", "a">> => ~urlCheck.valid

\* what does hold: the literal prefixes http:// and https:// decide
C13_PrependsIffNoLiteralPrefix ==
  urlCheck.pc = "checked" =>
    /\ urlCheck.normalized =
         IF \/ (Len(urlCheck.input) >= 4 /\ SubSeq(urlCheck.input, 1, 4) = <<"http", ":", "/", "/">>)
            \/ (Len(urlCheck.input) >= 5 /\ SubSeq(urlCheck.input, 1, 5) = <<"http", "s", ":", "/", "/">>)
           THEN urlCheck.input
           ELSE <<"http", "s", ":", "/", "/">> \o urlCheck.input
    /\ urlCheck.valid => HasHttpScheme(urlCheck.normalized)
    /\ urlCheck.input = <<"a", ".", "a">> =>
         /\ urlCheck.normalized = <<"http", "s", ":", "/", "/", "a", ".", "a">>
         /\ urlCheck.valid
    /\ urlCheck.input = <<"a", " ", "a", " ", "a">> => ~urlCheck.valid

\* HTTP://a is taken for a URL without scheme and the result is valid
C13_UpperCaseSchemeAccepted ==
  /\ urlCheck.pc = "checked"
  /\ urlCheck.input = <<"HTTP", ":", "/", "/", "a">>
  /\ urlCheck.normalized = <<"http", "s", ":", "/", "/", "HTTP", ":", "/", "/", "a">>
  /\ urlCheck.valid

\* ------------------------------------------------------------ stream relay

StreamOver == relay.stream \in {"closed", "errored"}
UpstreamOver == relay.upstream \in {"closed", "errored"}

\* C14: the relay makes no write on a caller's stream that has been closed,
\* cancelled or errored, and once the upstream stream has closed or errored
\* and the pump has returned, the caller's stream is closed or errored
C14_NoWriteAfterClose ==
  /\ relay.thrown # "enqueue"
  /\ (relay.pc = "done" /\ UpstreamOver) => StreamOver


\* C15: once the caller has disconnected, by either of the two ways the
\* disconnect reaches the handler (the abort listener has run, the response
\* stream was cancelled), at most one more chunk is read, and when the read
\* loop has stopped the upstream connection is not left open
C15_DisconnectCancelsUpstream ==
  /\ relay.afterNotice <= 1
  /\ (Noticed /\ relay.pc = "done") => relay.upstream \notin {"connecting", "open"}

\* C15 (the abort listener): once the listener has run the upstream
\* connection is not open, whatever the relay was doing
C15_AbortCancelsUpstream ==
  /\ relay.aborted => relay.upstream \notin {"connecting", "open"}
  /\ (relay.aborted /\ relay.pc = "reading") => relay.upstream = "cancelled"

\* C15 (steps): after the abort no chunk is read and none is written except
\* the one that was read before it
C15_NoReadAfterAbort ==
  [][relay.aborted =>
       /\ relay'.read = relay.read
       /\ relay'.written # relay.written => relay.pc = "read"]_vars

\* s is a prefix of t
IsPrefix(s, t) == Len(s) <= Len(t) /\ SubSeq(t, 1, Len(s)) = s

\* C16: the chunks written to the caller are a prefix of the chunks read
\* from the upstream stream, at most the last chunk read is not yet written,
\* and while a read is under way every chunk read before has been written
C16_WrittenPrefixOfRead ==
  /\ IsPrefix(relay.written, relay.read)
  /\ relay.read = [i \in 1..Len(relay.read) |-> i]
  /\ Len(relay.read) - Len(relay.written) <= 1
  /\ relay.pc \in {"pumping", "reading"} => relay.written = relay.read

\* the third read is under way and two chunks have been written
C16_Witness ==
  /\ relay.pc = "reading"
  /\ relay.written = <<1, 2>>
  /\ relay.read = <<1, 2>>

UpstreamNotOpened ==
  \/ relay.fetched = UpstreamThrows
  \/ (relay.fetched.kind = "http" /\ relay.fetched.status \notin 200..299)

\* C17: if the fetch of the upstream stream throws or returns a status that
\* is not a success, the relay answers with the error body and a status that
\* is not a success, and no stream is built
C17_ErrorStatusNotStream ==
  UpstreamNotOpened =>
    /\ relay.response.kind = "json"
    /\ relay.response.status \notin 200..299
    /\ relay.response.status >= 300
    /\ relay.stream = "none"

\* the Execution Backend answered 304 and the relay answered 500
C17_Witness ==
  /\ relay.fetched.kind = "http"
  /\ relay.fetched.status = 304
  /\ relay.response = [kind |-> "json", status |-> 500]

\* -------------------------------------------------------------- the reads

Answered == reader.pc = "done" /\ reader.response.status = 200

\* C18: a get-session or list-sessions request returns the data of a session
\* only to the user who owns it
C18_OnlyOwnerReads ==
  Answered =>
    \A r \in DOMAIN reader.response.data :
      reader.response.data[r].user_id = reader.caller

\* C19: a get-session request whose identifier is that of no session is
\* answered 404 without a summary
C19_UnknownSessionNotFound ==
  (/\ reader.pc = "done"
   /\ reader.op = "get"
   /\ \A r \in AllRequests : sessions[r] = NoRow \/ SessionUuid(r) # reader.arg) =>
    /\ reader.response.status = 404
    /\ reader.response.error = "Session not found"
    /\ reader.response.data = << >>

\* a session exists and a get-session request with another identifier, here
\* that of one of its records, has been answered 404
C19_Witness ==
  /\ reader.pc = "done"
  /\ reader.op = "get"
  /\ reader.arg = BenchmarkUuid(<<1, 1>>)
  /\ sessions[1] # NoRow
  /\ benchmarks[<<1, 1>>] # NoRow
  /\ reader.response.status = 404

\* the sum of execution_time_ms over the committed records of a session
RecordTimeSum(r) ==
  LET sum[S \in SUBSET MODELS_TO_RUN] ==
        IF S = {} THEN 0
        ELSE LET m == CHOOSE x \in S : TRUE
             IN  (IF benchmarks[<<r, m>>] # NoRow
                    THEN benchmarks[<<r, m>>].execution_time_ms ELSE 0)
                 + sum[S \ {m}]
  IN  sum[MODELS_TO_RUN]

\* C20: execution_time_ms of every summary that get-session or list-sessions
\* returns is the sum of execution_time_ms over the records of the session
C20_TimeIsSumOfRecords ==
  Answered =>
    \A r \in DOMAIN reader.response.data :
      reader.response.data[r].execution_time_ms = RecordTimeSum(r)

\* a summary over two records with the execution times 1 and 2
C20_Witness ==
  /\ Answered
  /\ 1 \in DOMAIN reader.response.data
  /\ reader.response.data[1].execution_time_ms = 3
  /\ \E m, n \in MODELS_TO_RUN :
       /\ benchmarks[<<1, m>>] # NoRow /\ benchmarks[<<1, m>>].execution_time_ms = 1
       /\ benchmarks[<<1, n>>] # NoRow /\ benchmarks[<<1, n>>].execution_time_ms = 2

\* ------------------------------------------------ writers of the aggregates

\* the fields of a session row that the aggregation rule maintains
Aggregates(row) == <<row.status, row.completed_models, row.successful_models>>

\* the step changes the aggregates of the existing session of request r
AggregatesChange(r) ==
  /\ sessions[r] # NoRow
  /\ Aggregates(sessions'[r]) # Aggregates(sessions[r])

\* the step is the recomputation made for a record of request r
RecomputesFor(r) == \E k \in BenchmarkKeys : k[1] = r /\ Recomputes(k)

\* C21 as claimed: once a session exists, its status, completed_models and
\* successful_models change only in a step of the aggregation rule
C21_OnlyRuleWritesAggregates ==
  [][\A r \in Requests : AggregatesChange(r) => RecomputesFor(r)]_vars

\* C21 as amended: once a session exists, its status, completed_models and
\* successful_models change only in a step of the aggregation rule or in a
\* step of the session update; no other operation writes them
C21_OnlyRuleOrSessionUpdateWrites ==
  [][\A r \in Requests :
       AggregatesChange(r) =>
          (RecomputesFor(r) \/ nSessionUpdates' = nSessionUpdates + 1)]_vars

\* the session update has written a status that the aggregation rule never
\* writes, and records have been updated as well
C21_Witness ==
  \E r \in Requests :
     /\ sessions[r] # NoRow
     /\ nSessionUpdates = 1 /\ nUpdates >= 1
     /\ Quiescent
     /\ sessions[r].status = "failed"

\* --------------------------------------------------------- failed records

\* the step commits the update that set record k to failed
CommitsFailed(k) ==
  /\ Recomputes(k)
  /\ txns[k].kind = "update"
  /\ txns[k].row.status = "failed"
  /\ benchmarks'[k] = txns[k].row

\* every record of session r is completed or failed, and one is failed
AllResolvedSomeFailed(r) ==
  /\ \A m \in MODELS_TO_RUN :
        /\ benchmarks[<<r, m>>] # NoRow
        /\ benchmarks[<<r, m>>].status \in {"completed", "failed"}
  /\ \E m \in MODELS_TO_RUN : benchmarks[<<r, m>>].status = "failed"

\* C22: when all records of a session are resolved, one of them failed, the
\* recomputations their updates triggered have finished and no session
\* update was made, the session is completed, not failed, with every record
\* in completed_models and the failed one not in successful_models
C22_FailedRecordCountsAsResolved ==
  \A r \in Requests :
     (Quiescent /\ nSessionUpdates = 0 /\ AllResolvedSomeFailed(r)) =>
        /\ sessions[r].status = "completed"
        /\ sessions[r].completed_models = sessions[r].total_models
        /\ sessions[r].successful_models < sessions[r].completed_models

\* C22 (steps): the recomputation made for a record updated to failed never
\* leaves the session failed: it leaves it running or completed, with the
\* failed record counted in completed_models and not in successful_models
C22_FailedRecordStep ==
  [][\A k \in BenchmarkKeys :
       CommitsFailed(k) =>
          LET new == sessions'[k[1]]
          IN /\ new.status \in {"running", "completed"}
             /\ new.completed_models >= 1
             /\ new.successful_models < new.completed_models]_vars

\* ------------------------------------------- updates sent one after another

\* what a set of updates amounts to, whatever the order they are sent in
ExpectedCompleted(updates) ==
  Cardinality({m \in MODELS_TO_RUN : updates[m].defined})

ExpectedSuccessful(updates) ==
  Cardinality({m \in MODELS_TO_RUN :
     /\ updates[m].defined
     /\ updates[m].value.status = "completed"
     /\ updates[m].value.success = Some(TRUE)})

ExpectedStatus(updates) ==
  IF ExpectedCompleted(updates) = NumModels THEN "completed" ELSE "running"

\* all updates of the batch have been sent and have committed
BatchDone == batch # NoBatch /\ batch.left = {} /\ Sequential

\* C23: when the updates of a fixed set, at most one per record of a
\* session, have been applied one after another, completed_models,
\* successful_models and status are what the set alone determines, in
\* whatever order the updates were applied
C23_OrderIndependent ==
  BatchDone =>
     LET row == sessions[batch.session]
     IN /\ row.completed_models = ExpectedCompleted(batch.updates)
        /\ row.successful_models = ExpectedSuccessful(batch.updates)
        /\ row.status = ExpectedStatus(batch.updates)

\* a set with one update per record, their outcomes different, all applied
C23_Witness ==
  /\ BatchDone
  /\ \A m \in MODELS_TO_RUN : batch.updates[m].defined
  /\ \E m, n \in MODELS_TO_RUN :
       /\ batch.updates[m].value.status = "completed"
       /\ batch.updates[m].value.success = Some(TRUE)
       /\ batch.updates[n].value.status = "failed"
  /\ sessions[batch.session].status = "completed"
  /\ sessions[batch.session].successful_models = 1

\* C28: the recomputation made for an update that is applied a second time
\* to the same record leaves completed_models, successful_models and status
\* as they were after it was applied once
C28_ReapplyChangesNothing ==
  [][\A k \in BenchmarkKeys :
       (Recomputes(k) /\ batch # NoBatch /\ batch.repeating)
          => Aggregates(sessions'[k[1]]) = Aggregates(sessions[k[1]])]_vars

\* an update that completed a record with success was applied twice, and the
\* session counts the record once
C28_Witness ==
  /\ batch # NoBatch /\ batch.repeats = 1 /\ batch.repeating /\ Sequential
  /\ sessions[batch.session].completed_models = 1
  /\ sessions[batch.session].successful_models = 1
  /\ nUpdates = 2

\* ------------------------------------------------- the inserts at return

\* the insert of the record of model m of request r has been issued and has
\* neither returned nor failed
InFlight(r, m) ==
  \/ req[r].ins[m] = "issued"
  \/ (txns[<<r, m>>] # NoTxn /\ txns[<<r, m>>].kind = "insert")

\* C24: when create-session has returned, with a success or with an error,
\* none of the record inserts it issued is still in flight
C24_NoInsertInFlightAtReturn ==
  \A r \in Requests :
     req[r].pc = "done" => \A m \in MODELS_TO_RUN : ~InFlight(r, m)

\* ------------------------------------------------------------- end_time

\* C25: with no session update made, a recomputation sets the end_time of
\* a session exactly when it first finds all records resolved: it leaves
\* end_time unset while fewer are resolved, and it leaves an end_time that
\* is set as it is
C25_EndTimeSetOnce ==
  [][\A k \in BenchmarkKeys :
       (Recomputes(k) /\ nSessionUpdates = 0 /\ benchmarks'[k] = txns[k].row)
          => LET old == sessions[k[1]]
                 new == sessions'[k[1]]
             IN /\ (old.end_time = 0 /\ new.status = "completed") => new.end_time # 0
                /\ (old.end_time = 0 /\ new.status # "completed") => new.end_time = 0
                /\ old.end_time # 0 => new.end_time = old.end_time]_vars

\* ------------------------------------------------- identifier collisions

\* C26: a create-session request whose generated identifier is that of an
\* existing session has returned the response of an unexpected error with
\* status 500, has drawn no second identifier, has no session row, no record
\* and no insert of one, and has not called the Execution Backend; the step
\* in which it fails changes no session and no record
C26_CollisionFails ==
  /\ [](\A r \in AllRequests :
          Collided(r) =>
             /\ req[r].pc = "done"
             /\ req[r].response = CatchResponse(FALSE, <<>>)
             /\ req[r].response.status = 500
             /\ NothingPersisted(r)
             /\ \A m \in MODELS_TO_RUN : req[r].ins[m] = "none"
             /\ req[r].backend = NoBackend)
  /\ [][\A r \in AllRequests :
          (req[r].pc = "idle" /\ req'[r].pc # "idle" /\ IdentifierTaken(req'[r].session_id))
             => (sessions' = sessions /\ benchmarks' = benchmarks /\ txns' = txns)]_vars

\* a request has failed on the identifier of a session that was created,
\* has its records and was started
C26_Witness ==
  \E r \in AllRequests, q \in AllRequests :
     /\ r # q
     /\ Collided(r)
     /\ req[r].pc = "done"
     /\ sessions[q].session_id = req[r].session_id
     /\ req[q].pc = "done" /\ req[q].response.status = 200
     /\ \A m \in MODELS_TO_RUN : benchmarks[<<q, m>>] # NoRow

\* --------------------------------------------------- the start call's order

\* C27: when the start call to the Execution Backend has been issued, the
\* session row and all N records of the session are committed, one per
\* model and each of the session, and no insert is still under way; while
\* the call is awaited each record is pending
C27_StartCallAfterRecords ==
  \A r \in Requests :
     StartCallIssued(r) =>
        /\ sessions[r] # NoRow
        /\ \A m \in MODELS_TO_RUN :
              /\ benchmarks[<<r, m>>] # NoRow
              /\ benchmarks[<<r, m>>].session_id = SessionUuid(r)
              /\ benchmarks[<<r, m>>].model_id = m
              /\ txns[<<r, m>>] = NoTxn
              /\ req[r].pc = "fetching" => benchmarks[<<r, m>>].status = "pending"

\* the start call is awaited
C27_Witness ==
  \E r \in Requests :
     /\ req[r].pc = "fetching"
     /\ \A m \in MODELS_TO_RUN : benchmarks[<<r, m>>] # NoRow

\* ------------------------------------------------------------- completion

\* every record of request r is committed as completed or failed
AllRecordsResolved(r) ==
  \A m \in MODELS_TO_RUN :
     /\ benchmarks[<<r, m>>] # NoRow
     /\ benchmarks[<<r, m>>].status \in {"completed", "failed"}

SessionCompleted(r) ==
  /\ sessions[r] # NoRow
  /\ sessions[r].status = "completed"
  /\ sessions[r].completed_models = sessions[r].total_models

\* C29: when create-session has succeeded, every record of the session is
\* eventually completed or failed and nothing but these record updates
\* touches the session, the session is eventually completed with
\* completed_models = total_models, and stays so
C29_EventuallyCompleted ==
  \A r \in Requests :
     <>[](req[r].pc = "done" /\ req[r].response.status = 200 /\ AllRecordsResolved(r))
        => <>[]SessionCompleted(r)

\* ------------------------------------------------- consistency of a summary

\* the entries of a summary's model_results that are completed or failed
ResolvedResults(summary) ==
  {m \in DOMAIN summary.model_results :
      summary.model_results[m].status \in {"completed", "failed"}}

\* C30: in every summary that get-session returns, completed_models is the
\* number of entries of model_results with status completed or failed
C30_SummaryCountsItsResults ==
  (Answered /\ reader.op = "get") =>
     \A r \in DOMAIN reader.response.data :
        reader.response.data[r].completed_models =
           Cardinality(ResolvedResults(reader.response.data[r]))

====
